---- MODULE Spec2Model ----
(***************************************************************************)
(* State-machine model of the window/workspace engine of src/src/wm.c:     *)
(* the per-workspace stacking and focus lists (intrusive singly linked     *)
(* lists through client.next / client.f_next), the focused-client          *)
(* reference, the workspace-to-monitor map, the monitor table, the stored  *)
(* client geometry and the IPC command handlers and X event handlers that  *)
(* mutate them.  One action per handler; every handler runs to completion  *)
(* (run(), wm.c:1131-1145, dispatches one event at a time).                *)
(*                                                                         *)
(* Pointers are client slots 1..MaxClients, NULL is 0.  A NULL dereference *)
(* ends the process (fault = "segv"): the handler is abandoned where it    *)
(* stands and the engine state is dropped.  An index outside a static      *)
(* array (c_list, f_list, ws_m_list) is undefined behaviour with two       *)
(* outcomes here: the process ends (fault = "oob"), or the access lands in *)
(* the word next to the array, which nothing else uses, and the handler    *)
(* runs to its end (fault = "stray"); the arrays carry those two words as  *)
(* the slots -1 and WORKSPACE_NUMBER.  No event is handled after a fault   *)
(* of any kind.                                                            *)
(***************************************************************************)
EXTENDS Integers, Sequences, FiniteSets, TLC

(* ----------------------------- bounds -------------------------------- *)
MaxClients == 3        \* windows the X server may ask to map: 1..MaxClients
MaxMonitors == 2       \* most monitors Xinerama ever reports
MonW == 4              \* width of every monitor, in pixels
MonH == 4              \* height of every monitor, in pixels
PlaceClients == 2      \* windows mapped while placement and workspaces are explored
GeomClients == 1       \* windows mapped while geometry commands are explored
MaxCoord == 6          \* geometry commands are explored while -2 <= x, y <= MaxCoord
MaxDim == 5            \* ... and while width, height <= MaxDim
MaxGap == 2            \* largest top gap and title height that is examined
MaxDelta == 6          \* largest |dx|, |dy| of a relative move that is examined

\* the compile-time parameters of config.h and globals.h, which the source
\* tree does not hold, at values that fit the monitors above
WORKSPACE_NUMBER == 2  \* size of c_list, f_list, ws_m_list
MINIMUM_DIM == 1       \* floor of every stored dimension
BORDER_WIDTH == 0      \* the defaults loaded by setup()
INTERNAL_BORDER_WIDTH == 0
TITLE_HEIGHT == 0
TOP_GAP == 1
EDGE_LOCK == TRUE

NULL == 0
Clients == 1..MaxClients
Ptr == 0..MaxClients
WS == 0..(WORKSPACE_NUMBER - 1)
\* the words of a workspace array and the one word on either side of it
Slots == -1..WORKSPACE_NUMBER
\* what an out-of-range index does: see the head of the module
UbOutcomes == {"stray", "oob"}
\* there is a choice only when the index is out of range
UbFor(ws) == IF ws \in WS THEN {"stray"} ELSE UbOutcomes

EAST == 0
SOUTH == 1
WEST == 2
NORTH == 3

MAX(a, b) == IF a > b THEN a ELSE b

\* C integer division truncates toward zero
CDiv(a, b) == IF a >= 0 THEN a \div b ELSE -((-a) \div b)

VARIABLES
    f_client,     \* wm.c:24  focused client or NULL
    c_list,       \* wm.c:25  head of each workspace's stacking list
    f_list,       \* wm.c:26  head of each workspace's focus list
    client,       \* the struct client of each slot (types.h), alive = malloc'ed
    m_list,       \* wm.c:27  monitor table, indexed 0..m_count-1
    m_count,      \* wm.c:31
    ws_m_list,    \* wm.c:29  workspace -> monitor index
    curr_ws,      \* wm.c:30
    conf,         \* wm.c:28  global configuration
    display_width,\* wm.c:37
    fault,        \* "none", or how the process left defined behaviour
    last          \* the event handled last (history, for stating the properties)

vars == <<f_client, c_list, f_list, client, m_list, m_count, ws_m_list,
          curr_ws, conf, display_width, fault, last>>

\* the engine state as one record, threaded through the C functions below
State ==
    [f_client |-> f_client, c_list |-> c_list, f_list |-> f_list,
     client |-> client, m_list |-> m_list, m_count |-> m_count,
     ws_m_list |-> ws_m_list, curr_ws |-> curr_ws, conf |-> conf,
     display_width |-> display_width, fault |-> fault, ub |-> "stray"]

\* a slot that is not allocated
FreeClient ==
    [alive |-> FALSE, ws |-> 0, x |-> 0, y |-> 0, width |-> 0, height |-> 0,
     hidden |-> FALSE, x_hide |-> 0, fullscreen |-> FALSE, decorated |-> FALSE,
     next |-> NULL, f_next |-> NULL]

\* the process image after a fault: there is no engine state left to speak
\* of, only how it ended
Crashed(how) ==
    [f_client |-> 0, c_list |-> [ws \in -1..WORKSPACE_NUMBER |-> 0],
     f_list |-> [ws \in -1..WORKSPACE_NUMBER |-> 0],
     client |-> [c \in 1..MaxClients |-> FreeClient], m_list |-> <<>>, m_count |-> 0,
     ws_m_list |-> [ws \in -1..WORKSPACE_NUMBER |-> 0], curr_ws |-> 0,
     conf |-> <<>>, display_width |-> 0, fault |-> how]

BecomesRunning(s) ==
    /\ f_client' = s.f_client
    /\ c_list' = s.c_list
    /\ f_list' = s.f_list
    /\ client' = s.client
    /\ m_list' = s.m_list
    /\ m_count' = s.m_count
    /\ ws_m_list' = s.ws_m_list
    /\ curr_ws' = s.curr_ws
    /\ conf' = s.conf
    /\ display_width' = s.display_width
    /\ fault' = s.fault

\* the handler is still executing
Ok(s) == s.fault \in {"none", "stray"}

Becomes(s) ==
    IF Ok(s) THEN BecomesRunning(s) ELSE BecomesRunning(Crashed(s.fault))

Segv(s) == [s EXCEPT !.fault = "segv"]
Oob(s) == [s EXCEPT !.fault = "oob"]
Hang(s) == [s EXCEPT !.fault = "hang"]

\* an access to slot ws of c_list, f_list or ws_m_list
Touch(s, ws) ==
    IF ~Ok(s) \/ ws \in WS THEN s
    ELSE IF ws \notin Slots \/ s.ub = "oob" THEN Oob(s)
    ELSE [s EXCEPT !.fault = "stray"]

\* monitor i as Xinerama reports it: monitors side by side, left to right
XineramaScreen(i) ==
    [screen |-> i, x |-> i * MonW, y |-> 0, width |-> MonW, height |-> MonH]

XineramaQueryScreens(n) == [i \in 0..(n - 1) |-> XineramaScreen(i)]

(* --------------------------- list walking ---------------------------- *)
\* the clients reached from head through the link field, in order; the
\* walk stops after MaxClients + 1 steps (a longer walk is a cycle)
RECURSIVE Walk(_, _, _, _)
Walk(cl, link, p, fuel) ==
    IF p = NULL \/ fuel = 0 THEN <<>>
    ELSE <<p>> \o Walk(cl, link, IF link = "next" THEN cl[p].next ELSE cl[p].f_next, fuel - 1)

Stack(s, ws) == Walk(s.client, "next", s.c_list[ws], MaxClients + 1)
Focus(s, ws) == Walk(s.client, "f_next", s.f_list[ws], MaxClients + 1)

Range(q) == {q[i] : i \in 1..Len(q)}

(* ------------------------- pointer checks ---------------------------- *)
\* what dereferencing p does: nothing, a NULL dereference, or a read of
\* freed memory
Deref(s, p) ==
    IF p = NULL THEN "segv"
    ELSE IF ~s.client[p].alive THEN "uaf"
    ELSE "none"

Fail(s, how) == [s EXCEPT !.fault = how]

\* ws_m_list[c->ws] and whether m_list[that] exists
MonIndex(s, c) == s.ws_m_list[s.client[c].ws]
MonValid(s, mon) == mon \in DOMAIN s.m_list

(* --------------------------- geometry -------------------------------- *)
client_move_absolute(s, c, x, y) ==
    IF ~Ok(s) THEN s
    ELSE IF Deref(s, c) # "none" THEN Fail(s, Deref(s, c))
    ELSE [s EXCEPT !.client[c].x = x, !.client[c].y = y]

\* client_move_relative without the lock on the left side of the screen
client_move_relative_no_left_lock(s, c, x, y) ==
    IF ~Ok(s) THEN s
    ELSE IF Deref(s, c) # "none" THEN Fail(s, Deref(s, c))
    ELSE IF s.conf.edge_lock THEN
        LET mon == MonIndex(s, c)
            g == s.client[c]
        IN  IF ~MonValid(s, mon) THEN Oob(s)
            ELSE
            LET m == s.m_list[mon]
                dx == IF g.x + g.width + x > m.width + m.x
                        THEN m.width + m.x - g.width
                      ELSE g.x + x
                dy == IF g.y + g.height + y > m.height + m.y
                        THEN m.height + m.y - g.height
                      ELSE IF g.y + y < m.y + s.conf.top_gap THEN m.y
                      ELSE g.y + y
            IN  client_move_absolute(s, c, dx, dy)
    ELSE client_move_absolute(s, c, s.client[c].x + x, s.client[c].y + y)

client_move_relative(s, c, x, y) ==
    IF ~Ok(s) THEN s
    ELSE IF Deref(s, c) # "none" THEN Fail(s, Deref(s, c))
    ELSE IF s.conf.edge_lock THEN
        LET mon == MonIndex(s, c)
            g == s.client[c]
        IN  IF ~MonValid(s, mon) THEN Oob(s)
            ELSE
            LET m == s.m_list[mon]
                dx == IF g.x + g.width + x > m.width + m.x
                        THEN m.width + m.x - g.width
                      ELSE IF g.x + x < m.x THEN m.x
                      ELSE g.x + x
                dy == IF g.y + g.height + y > m.height + m.y
                        THEN m.height + m.y - g.height
                      ELSE IF g.y + y < m.y + s.conf.top_gap THEN m.y
                      ELSE g.y + y
            IN  client_move_absolute(s, c, dx, dy)
    ELSE client_move_absolute(s, c, s.client[c].x + x, s.client[c].y + y)

\* client_resize_absolute that stores w and h as they come
client_resize_absolute_no_floor(s, c, w, h) ==
    IF ~Ok(s) THEN s
    ELSE IF Deref(s, c) # "none" THEN Fail(s, Deref(s, c))
    ELSE [s EXCEPT !.client[c].width = w, !.client[c].height = h]

client_resize_absolute(s, c, w, h) ==
    IF ~Ok(s) THEN s
    ELSE IF Deref(s, c) # "none" THEN Fail(s, Deref(s, c))
    ELSE [s EXCEPT !.client[c].width = MAX(w, MINIMUM_DIM),
                   !.client[c].height = MAX(h, MINIMUM_DIM)]

\* client_resize_relative that, with edge-lock off, stores the sums itself
client_resize_relative_unfloored(s, c, w, h) ==
    IF ~Ok(s) THEN s
    ELSE IF Deref(s, c) # "none" THEN Fail(s, Deref(s, c))
    ELSE IF s.conf.edge_lock THEN
        LET mon == MonIndex(s, c)
            g == s.client[c]
        IN  IF ~MonValid(s, mon) THEN Oob(s)
            ELSE
            LET m == s.m_list[mon]
                dw == IF g.x + g.width + w > m.x + m.width
                        THEN m.x + m.width - g.x
                      ELSE g.width + w
                dh == IF g.y + g.height + s.conf.t_height + h > m.y + m.height
                        THEN m.height + m.y - g.y
                      ELSE g.height + h
            IN  client_resize_absolute(s, c, dw, dh)
    ELSE [s EXCEPT !.client[c].width = s.client[c].width + w,
                   !.client[c].height = s.client[c].height + h]

\* client_resize_relative without the cap at the right side of the monitor
client_resize_relative_no_right_cap(s, c, w, h) ==
    IF ~Ok(s) THEN s
    ELSE IF Deref(s, c) # "none" THEN Fail(s, Deref(s, c))
    ELSE IF s.conf.edge_lock THEN
        LET mon == MonIndex(s, c)
            g == s.client[c]
        IN  IF ~MonValid(s, mon) THEN Oob(s)
            ELSE
            LET m == s.m_list[mon]
                dh == IF g.y + g.height + s.conf.t_height + h > m.y + m.height
                        THEN m.height + m.y - g.y
                      ELSE g.height + h
            IN  client_resize_absolute(s, c, g.width + w, dh)
    ELSE client_resize_absolute(s, c, s.client[c].width + w, s.client[c].height + h)

client_resize_relative(s, c, w, h) ==
    IF ~Ok(s) THEN s
    ELSE IF Deref(s, c) # "none" THEN Fail(s, Deref(s, c))
    ELSE IF s.conf.edge_lock THEN
        LET mon == MonIndex(s, c)
            g == s.client[c]
        IN  IF ~MonValid(s, mon) THEN Oob(s)
            ELSE
            LET m == s.m_list[mon]
                dw == IF g.x + g.width + w > m.x + m.width
                        THEN m.x + m.width - g.x
                      ELSE g.width + w
                dh == IF g.y + g.height + s.conf.t_height + h > m.y + m.height
                        THEN m.height + m.y - g.y
                      ELSE g.height + h
            IN  client_resize_absolute(s, c, dw, dh)
    ELSE client_resize_absolute(s, c, s.client[c].width + w, s.client[c].height + h)

\* client_refresh that moves and resizes once
client_refresh_once(s, c) ==
    client_resize_relative(client_move_relative(s, c, 0, 0), c, 0, 0)

client_refresh(s, c) ==
    LET s1 == client_move_relative(s, c, 0, 0)
        s2 == client_resize_relative(s1, c, 0, 0)
        s3 == client_move_relative(s2, c, 0, 0)
    IN  client_resize_relative(s3, c, 0, 0)

client_hide(s, c) ==
    IF ~Ok(s) THEN s
    ELSE IF Deref(s, c) # "none" THEN Fail(s, Deref(s, c))
    ELSE IF ~s.client[c].hidden THEN
        LET s1 == [s EXCEPT !.client[c].x_hide = s.client[c].x]
            s2 == client_move_absolute(s1, c, s.display_width + s.conf.b_width,
                                       s.client[c].y)
        IN  [s2 EXCEPT !.client[c].hidden = TRUE]
    ELSE s

\* client_show that leaves the window where client_hide put it
client_show_in_place(s, c) ==
    IF ~Ok(s) THEN s
    ELSE IF Deref(s, c) # "none" THEN Fail(s, Deref(s, c))
    ELSE IF s.client[c].hidden THEN
        client_refresh([s EXCEPT !.client[c].hidden = FALSE], c)
    ELSE s

client_show(s, c) ==
    IF ~Ok(s) THEN s
    ELSE IF Deref(s, c) # "none" THEN Fail(s, Deref(s, c))
    ELSE IF s.client[c].hidden THEN
        LET s1 == client_move_absolute(s, c, s.client[c].x_hide, s.client[c].y)
            s2 == [s1 EXCEPT !.client[c].hidden = FALSE]
        IN  client_refresh(s2, c)
    ELSE s

\* the monitor-relative layouts: each reads m_list[ws_m_list[c->ws]]
client_center(s, c) ==
    IF ~Ok(s) THEN s
    ELSE IF Deref(s, c) # "none" THEN Fail(s, Deref(s, c))
    ELSE LET mon == MonIndex(s, c) IN
         IF ~MonValid(s, mon) THEN Oob(s)
         ELSE LET m == s.m_list[mon] IN
              client_move_absolute(s, c,
                  m.x + CDiv(m.width, 2) - CDiv(s.client[c].width, 2),
                  m.y + CDiv(m.height, 2) - CDiv(s.client[c].height, 2))

client_fullscreen(s, c) ==
    IF ~Ok(s) THEN s
    ELSE IF Deref(s, c) # "none" THEN Fail(s, Deref(s, c))
    ELSE LET mon == MonIndex(s, c) IN
         IF ~MonValid(s, mon) THEN Oob(s)
         ELSE LET m == s.m_list[mon]
                  s1 == client_move_absolute(s, c, m.x, m.y)
                  s2 == client_resize_absolute(s1, c, m.width, m.height)
              IN  [s2 EXCEPT !.client[c].fullscreen = ~s.client[c].fullscreen]

client_monocle(s, c) ==
    IF ~Ok(s) THEN s
    ELSE IF Deref(s, c) # "none" THEN Fail(s, Deref(s, c))
    ELSE LET mon == MonIndex(s, c) IN
         IF ~MonValid(s, mon) THEN Oob(s)
         ELSE LET m == s.m_list[mon]
                  s1 == client_move_absolute(s, c, m.x, m.y + s.conf.top_gap)
              IN  client_resize_absolute(s1, c, m.width, m.height - s.conf.top_gap)

client_snap_left(s, c) ==
    IF ~Ok(s) THEN s
    ELSE IF Deref(s, c) # "none" THEN Fail(s, Deref(s, c))
    ELSE LET mon == MonIndex(s, c) IN
         IF ~MonValid(s, mon) THEN Oob(s)
         ELSE LET m == s.m_list[mon]
                  s1 == client_move_absolute(s, c, m.x, m.y + s.conf.top_gap)
              IN  client_resize_absolute(s1, c, CDiv(m.width, 2),
                                         m.height - s.conf.top_gap)

client_snap_right(s, c) ==
    IF ~Ok(s) THEN s
    ELSE IF Deref(s, c) # "none" THEN Fail(s, Deref(s, c))
    ELSE LET mon == MonIndex(s, c) IN
         IF ~MonValid(s, mon) THEN Oob(s)
         ELSE LET m == s.m_list[mon]
                  s1 == client_move_absolute(s, c, m.x + CDiv(m.width, 2),
                                             m.y + s.conf.top_gap)
              IN  client_resize_absolute(s1, c, CDiv(m.width, 2),
                                         m.height - s.conf.top_gap)

\* XRaiseWindow only: the display's stacking is not part of the engine state
client_raise(s, c) == s

\* sends WM_DELETE_WINDOW to c->window; the window goes away, if it does,
\* with a later unmap-notify
client_close(s, c) ==
    IF ~Ok(s) THEN s
    ELSE IF Deref(s, c) # "none" THEN Fail(s, Deref(s, c))
    ELSE s

client_decorate_new(s, c) ==
    IF ~Ok(s) THEN s ELSE [s EXCEPT !.client[c].decorated = TRUE]

client_decorations_destroy(s, c) ==
    IF ~Ok(s) THEN s ELSE [s EXCEPT !.client[c].decorated = FALSE]

(* --------------------------- registry -------------------------------- *)
\* client_save with the focus-list push left out
client_save_stack_only(s, c, ws) ==
    LET t == Touch(s, ws) IN
    IF ~Ok(t) THEN t
    ELSE [t EXCEPT !.client[c].next = t.c_list[ws],
                   !.c_list[ws] = c]

client_save(s, c, ws) ==
    LET t == Touch(s, ws) IN
    IF ~Ok(t) THEN t
    ELSE [t EXCEPT !.client[c].next = t.c_list[ws],
                   !.c_list[ws] = c,
                   !.client[c].f_next = t.f_list[ws],
                   !.f_list[ws] = c]

\* the loops of client_delete: the first tmp from p on with tmp->link == c,
\* NULL when the list ends first
RECURSIVE FindPrev(_, _, _, _, _)
FindPrev(cl, link, p, c, fuel) ==
    IF p = NULL THEN NULL
    ELSE IF fuel = 0 THEN -1
    ELSE IF (IF link = "next" THEN cl[p].next ELSE cl[p].f_next) = c THEN p
    ELSE FindPrev(cl, link, IF link = "next" THEN cl[p].next ELSE cl[p].f_next,
                  c, fuel - 1)

\* "Delete in the stack" that advances the head whatever c is
DeleteInStackAlwaysHead(s, c, ws) ==
    [s EXCEPT !.c_list[ws] = s.client[s.c_list[ws]].next]

\* "Delete in the stack", wm.c:307-316
DeleteInStack(s, c, ws) ==
    IF s.c_list[ws] = c THEN [s EXCEPT !.c_list[ws] = s.client[c].next]
    ELSE LET tmp == FindPrev(s.client, "next", s.c_list[ws], c, MaxClients + 1) IN
         IF tmp = -1 THEN Hang(s)
         ELSE IF tmp = NULL THEN Segv(s)
         ELSE [s EXCEPT !.client[tmp].next = s.client[s.client[tmp].next].next]

\* "Delete in the focus list", wm.c:318-329
DeleteInFocus(s, c, ws) ==
    IF ~Ok(s) THEN s
    ELSE IF s.f_list[ws] = c THEN [s EXCEPT !.f_list[ws] = s.client[c].f_next]
    ELSE LET tmp == FindPrev(s.client, "f_next", s.f_list[ws], c, MaxClients + 1) IN
         IF tmp = -1 THEN Hang(s)
         ELSE IF tmp = NULL THEN Segv(s)
         ELSE [s EXCEPT !.client[tmp].f_next = s.client[s.client[tmp].f_next].f_next]

client_delete(s, c) ==
    IF ~Ok(s) THEN s
    ELSE IF Deref(s, c) # "none" THEN Fail(s, Deref(s, c))
    ELSE LET ws == s.client[c].ws IN
         IF ws = -1 THEN s
         ELSE IF ws \notin WS THEN Oob(s)
         ELSE LET s1 == DeleteInStack(s, c, ws)
                  s2 == DeleteInFocus(s1, c, ws)
              IN  IF Ok(s2) /\ s2.c_list[ws] = NULL
                    THEN [s2 EXCEPT !.f_client = NULL]
                  ELSE s2

\* the loop of client_move_to_front: the tmp it stops at, which is c's
\* predecessor, or the last element when c is not in the list
RECURSIVE FindPrevOrLast(_, _, _, _)
FindPrevOrLast(cl, p, c, fuel) ==
    IF fuel = 0 THEN -1
    ELSE IF cl[p].next = NULL \/ cl[p].next = c THEN p
    ELSE FindPrevOrLast(cl, cl[p].next, c, fuel - 1)

\* client_move_to_front without the test for c at the front of the list
client_move_to_front_no_head_test(s, c) ==
    IF ~Ok(s) THEN s
    ELSE IF Deref(s, c) # "none" THEN Fail(s, Deref(s, c))
    ELSE LET ws == s.client[c].ws IN
         IF ws = -1 THEN s
         ELSE IF ws \notin WS THEN Oob(s)
         ELSE IF s.c_list[ws] = NULL THEN Segv(s)
         ELSE IF s.client[s.c_list[ws]].next = NULL THEN s
         ELSE LET tmp == FindPrevOrLast(s.client, s.c_list[ws], c, MaxClients + 1) IN
              IF tmp = -1 THEN Hang(s)
              ELSE IF s.client[tmp].next = NULL THEN Segv(s)
              ELSE LET s1 == [s EXCEPT !.client[tmp].next =
                                           s.client[s.client[tmp].next].next]
                       s2 == [s1 EXCEPT !.client[c].next = s1.c_list[ws]]
                   IN  [s2 EXCEPT !.c_list[ws] = c]

\* client_move_to_front that puts c at the front of the focus list as well
client_move_to_front_both_lists(s, c) ==
    IF ~Ok(s) THEN s
    ELSE IF Deref(s, c) # "none" THEN Fail(s, Deref(s, c))
    ELSE LET ws == s.client[c].ws IN
         IF ws = -1 THEN s
         ELSE IF ws \notin WS THEN Oob(s)
         ELSE IF s.c_list[ws] = c THEN s
         ELSE IF s.c_list[ws] = NULL THEN Segv(s)
         ELSE IF s.client[s.c_list[ws]].next = NULL THEN s
         ELSE LET tmp == FindPrevOrLast(s.client, s.c_list[ws], c, MaxClients + 1) IN
              IF tmp = -1 THEN Hang(s)
              ELSE IF s.client[tmp].next = NULL THEN Segv(s)
              ELSE LET s1 == [s EXCEPT !.client[tmp].next =
                                           s.client[s.client[tmp].next].next]
                       s2 == [s1 EXCEPT !.client[c].next = s1.c_list[ws]]
                   IN  [s2 EXCEPT !.c_list[ws] = c, !.f_list[ws] = c]

client_move_to_front(s, c) ==
    IF ~Ok(s) THEN s
    ELSE IF Deref(s, c) # "none" THEN Fail(s, Deref(s, c))
    ELSE LET ws == s.client[c].ws IN
         IF ws = -1 THEN s
         ELSE IF ws \notin WS THEN Oob(s)
         ELSE IF s.c_list[ws] = c THEN s
         ELSE IF s.c_list[ws] = NULL THEN Segv(s)
         ELSE IF s.client[s.c_list[ws]].next = NULL THEN s
         ELSE LET tmp == FindPrevOrLast(s.client, s.c_list[ws], c, MaxClients + 1) IN
              IF tmp = -1 THEN Hang(s)
              ELSE IF s.client[tmp].next = NULL THEN Segv(s)
              ELSE LET s1 == [s EXCEPT !.client[tmp].next =
                                           s.client[s.client[tmp].next].next]
                       s2 == [s1 EXCEPT !.client[c].next = s1.c_list[ws]]
                   IN  [s2 EXCEPT !.c_list[ws] = c]

\* client_manage_focus that leaves the stacking list alone
client_manage_focus_no_front(s, c) ==
    IF ~Ok(s) THEN s
    ELSE IF c # NULL /\ s.f_client # NULL /\ Deref(s, s.f_client) # "none"
        THEN Fail(s, Deref(s, s.f_client))
    ELSE IF c # NULL THEN
        IF Deref(s, c) # "none" THEN Fail(s, Deref(s, c))
        ELSE [s EXCEPT !.f_client = c]
    ELSE s

\* client_set_color(f_client, ...) and manage_xsend_icccm read the two
\* clients and talk to the display; the engine state changes in the second
\* branch only
client_manage_focus(s, c) ==
    IF ~Ok(s) THEN s
    ELSE IF c # NULL /\ s.f_client # NULL /\ Deref(s, s.f_client) # "none"
        THEN Fail(s, Deref(s, s.f_client))
    ELSE IF c # NULL THEN
        IF Deref(s, c) # "none" THEN Fail(s, Deref(s, c))
        ELSE client_move_to_front([s EXCEPT !.f_client = c], c)
    ELSE s

\* focus_next that stays on the last client of the focus list
focus_next_no_wrap(s, c) ==
    IF ~Ok(s) THEN s
    ELSE IF c = NULL THEN s
    ELSE IF Deref(s, c) # "none" THEN Fail(s, Deref(s, c))
    ELSE LET ws == s.client[c].ws IN
         IF ws \notin WS THEN Oob(s)
         ELSE client_manage_focus(s,
                IF s.client[c].f_next = NULL THEN c ELSE s.client[c].f_next)

focus_next(s, c) ==
    IF ~Ok(s) THEN s
    ELSE IF c = NULL THEN s
    ELSE IF Deref(s, c) # "none" THEN Fail(s, Deref(s, c))
    ELSE LET ws == s.client[c].ws IN
         IF ws \notin WS THEN Oob(s)
         ELSE IF s.f_list[ws] = c /\ s.client[s.f_list[ws]].f_next = NULL
            THEN client_manage_focus(s, s.f_list[ws])
         ELSE client_manage_focus(s,
                IF s.client[c].f_next = NULL THEN s.f_list[ws]
                ELSE s.client[c].f_next)

\* the window of the client in slot c is window c; only the stacking lists
\* are searched
get_client_from_window(s, w) ==
    IF \E i \in WS : w \in Range(Stack(s, i)) THEN w ELSE NULL

safe_to_focus(s, ws) ==
    ~ \E i \in WS :
        /\ i # ws
        /\ s.ws_m_list[i] = s.ws_m_list[ws]
        /\ s.c_list[i] # NULL
        /\ s.client[s.c_list[i]].hidden = FALSE

\* client_send_to_ws that leaves the focus on the source workspace alone
client_send_to_ws_no_focus_next(s, c, ws) ==
    LET s1 == client_delete(s, c)
        s2 == IF Ok(s1) THEN [s1 EXCEPT !.client[c].ws = ws] ELSE s1
        s3 == client_save(s2, c, ws)
        s4 == client_hide(s3, c)
    IN  IF ~Ok(s4) THEN s4
        ELSE IF safe_to_focus(s4, ws) THEN client_show(s4, c)
        ELSE s4

client_send_to_ws(s, c, ws) ==
    LET s1 == client_delete(s, c)
        prev == s.client[c].ws
        s2 == IF Ok(s1) THEN [s1 EXCEPT !.client[c].ws = ws] ELSE s1
        s3 == client_save(s2, c, ws)
        s4 == client_hide(s3, c)
        s5 == focus_next(s4, IF Ok(s4) THEN s4.f_list[prev] ELSE NULL)
    IN  IF ~Ok(s5) THEN s5
        ELSE IF safe_to_focus(s5, ws) THEN client_show(s5, c)
        ELSE s5

(* ----------------------- workspaces and focus ------------------------ *)
RECURSIVE HideEach(_, _, _)
HideEach(s, q, i) ==
    IF i > Len(q) THEN s ELSE HideEach(client_hide(s, q[i]), q, i + 1)

\* the second loop body of switch_ws; XLowerWindow changes no engine state
RECURSIVE ShowEach(_, _, _)
ShowEach(s, q, i) ==
    IF i > Len(q) THEN s ELSE ShowEach(client_show(s, q[i]), q, i + 1)

RECURSIVE SwitchLoop(_, _, _)
SwitchLoop(s, ws, i) ==
    IF i >= WORKSPACE_NUMBER \/ ~Ok(s) THEN s
    ELSE IF i # ws /\ s.ws_m_list[i] = s.ws_m_list[ws]
        THEN SwitchLoop(HideEach(s, Stack(s, i), 1), ws, i + 1)
    ELSE IF i = ws
        THEN SwitchLoop(ShowEach(s, Stack(s, i), 1), ws, i + 1)
    ELSE SwitchLoop(s, ws, i + 1)

\* switch_ws that leaves the focus where it was
switch_ws_keep_focus(s, ws) ==
    IF ~Ok(Touch(s, ws)) THEN Touch(s, ws)
    ELSE LET s1 == SwitchLoop(Touch(s, ws), ws, 0)
             s2 == IF Ok(s1) THEN [s1 EXCEPT !.curr_ws = ws] ELSE s1
         IN  IF Ok(s2) /\ ~MonValid(s2, s2.ws_m_list[ws]) THEN Oob(s2) ELSE s2

switch_ws(s, ws) ==
    IF ~Ok(Touch(s, ws)) THEN Touch(s, ws)
    ELSE LET s1 == SwitchLoop(Touch(s, ws), ws, 0)
             s2 == IF Ok(s1) THEN [s1 EXCEPT !.curr_ws = ws] ELSE s1
             s3 == IF Ok(s2) /\ ~MonValid(s2, s2.ws_m_list[ws]) THEN Oob(s2) ELSE s2
         IN  client_manage_focus(s3, IF Ok(s3) THEN s3.c_list[s3.curr_ws] ELSE NULL)

\* the body of the inner loop of refresh_config for client tmp of workspace i
RefreshOne(s, tmp, i) ==
    LET s1 == IF Ok(s) /\ s.client[tmp].decorated
                THEN client_decorate_new(client_decorations_destroy(s, tmp), tmp)
              ELSE s
        s2 == client_refresh(s1, tmp)
        s3 == client_show(s2, tmp)
    IN  IF ~Ok(s3) THEN s3
        ELSE IF i # s3.curr_ws THEN client_hide(s3, tmp)
        ELSE client_raise(client_show(s3, tmp), tmp)

RECURSIVE RefreshEach(_, _, _, _)
RefreshEach(s, q, k, i) ==
    IF k > Len(q) THEN s ELSE RefreshEach(RefreshOne(s, q[k], i), q, k + 1, i)

RECURSIVE RefreshLoop(_, _)
RefreshLoop(s, i) ==
    IF i >= WORKSPACE_NUMBER \/ ~Ok(s) THEN s
    ELSE RefreshLoop(RefreshEach(s, Stack(s, i), 1, i), i + 1)

refresh_config(s) == RefreshLoop(s, 0)

client_toggle_decorations(s, c) ==
    IF ~Ok(s) THEN s
    ELSE IF Deref(s, c) # "none" THEN Fail(s, Deref(s, c))
    ELSE LET s1 == IF s.client[c].decorated THEN client_decorations_destroy(s, c)
                   ELSE client_decorate_new(s, c)
             s2 == client_raise(client_refresh(s1, c), c)
         IN  client_manage_focus(s2, c)

\* the integer square root, for the distance below
ISqrt(n) == CHOOSE r \in 0..n : r * r <= n /\ (r + 1) * (r + 1) > n

\* utils.h is not part of the sources: the distance between the centres of
\* the two stored rectangles, truncated to an int
euclidean_distance(a, b) ==
    LET ax == a.x + CDiv(a.width, 2)
        ay == a.y + CDiv(a.height, 2)
        bx == b.x + CDiv(b.width, 2)
        by == b.y + CDiv(b.height, 2)
    IN  ISqrt((ax - bx) * (ax - bx) + (ay - by) * (ay - by))

INT_MAX == 2147483647

\* the loop of client_cardinal_focus with dist <= min for dist < min
RECURSIVE CardinalScanLastTie(_, _, _, _, _, _, _)
CardinalScanLastTie(cl, c, dir, tmp, min, best, fuel) ==
    IF tmp = NULL \/ fuel = 0 THEN best
    ELSE LET dist == euclidean_distance(cl[c], cl[tmp])
             side == CASE dir = EAST  -> cl[tmp].x > cl[c].x
                       [] dir = SOUTH -> cl[tmp].y > cl[c].y
                       [] dir = WEST  -> cl[tmp].x < cl[c].x
                       [] dir = NORTH -> cl[tmp].y < cl[c].y
                       [] OTHER -> FALSE
         IN  IF side /\ dist <= min
               THEN CardinalScanLastTie(cl, c, dir, cl[tmp].next, dist, tmp, fuel - 1)
             ELSE CardinalScanLastTie(cl, c, dir, cl[tmp].next, min, best, fuel - 1)

\* the loop of client_cardinal_focus from tmp on: the final focus_next
RECURSIVE CardinalScan(_, _, _, _, _, _, _)
CardinalScan(cl, c, dir, tmp, min, best, fuel) ==
    IF tmp = NULL \/ fuel = 0 THEN best
    ELSE LET dist == euclidean_distance(cl[c], cl[tmp])
             side == CASE dir = EAST  -> cl[tmp].x > cl[c].x
                       [] dir = SOUTH -> cl[tmp].y > cl[c].y
                       [] dir = WEST  -> cl[tmp].x < cl[c].x
                       [] dir = NORTH -> cl[tmp].y < cl[c].y
                       [] OTHER -> FALSE
         IN  IF side /\ dist < min
               THEN CardinalScan(cl, c, dir, cl[tmp].next, dist, tmp, fuel - 1)
             ELSE CardinalScan(cl, c, dir, cl[tmp].next, min, best, fuel - 1)

\* client_cardinal_focus that moves on along the focus list when no client
\* lies on the requested side
client_cardinal_focus_or_next(s, c, dir) ==
    IF ~Ok(s) THEN s
    ELSE IF s.curr_ws \notin WS THEN Oob(s)
    ELSE IF s.c_list[s.curr_ws] = NULL THEN s
    ELSE IF Deref(s, c) # "none" THEN Fail(s, Deref(s, c))
    ELSE LET fnext == CardinalScan(s.client, c, dir, s.c_list[s.curr_ws],
                                   INT_MAX, NULL, MaxClients + 1)
         IN  IF fnext = NULL THEN focus_next(s, c) ELSE client_manage_focus(s, fnext)

client_cardinal_focus(s, c, dir) ==
    IF ~Ok(s) THEN s
    ELSE IF s.curr_ws \notin WS THEN Oob(s)
    ELSE IF s.c_list[s.curr_ws] = NULL THEN s
    ELSE IF Deref(s, c) # "none" THEN Fail(s, Deref(s, c))
    ELSE LET fnext == CardinalScan(s.client, c, dir, s.c_list[s.curr_ws],
                                   INT_MAX, NULL, MaxClients + 1)
         IN  IF fnext = NULL THEN s ELSE client_manage_focus(s, fnext)

\* wa: the attributes of the window; managed: its type is none of dock,
\* toolbar, utility, menu.  malloc returns the slot of the window.
manage_new_window(s, w, wa, managed) ==
    IF ~Ok(s) THEN s
    ELSE IF ~managed THEN s
    ELSE IF s.curr_ws \notin WS THEN Oob(s)
    ELSE LET c == w
             s1 == [s EXCEPT !.client[c] =
                       [alive |-> TRUE, ws |-> s.curr_ws, x |-> wa.x, y |-> wa.y,
                        width |-> wa.width, height |-> wa.height,
                        hidden |-> FALSE, x_hide |-> s.client[c].x_hide,
                        fullscreen |-> FALSE, decorated |-> FALSE,
                        next |-> s.client[c].next, f_next |-> s.client[c].f_next]]
             s2 == client_decorate_new(s1, c)
             s3 == client_refresh(s2, c)
             s4 == client_save(s3, c, s3.curr_ws)
             s5 == client_manage_focus(s4, c)
         IN  client_center(s5, c)

\* free(c): the slot returns to the allocator
Free(s, c) == IF ~Ok(s) THEN s ELSE [s EXCEPT !.client[c] = FreeClient]

\* handle_unmap_notify with the focus_next left out
handle_unmap_notify_keep_focus(s, w) ==
    LET c == get_client_from_window(s, w) IN
    IF c # NULL THEN Free(client_delete(s, c), c) ELSE s

\* handle_unmap_notify that focuses the head of the focus list
handle_unmap_notify_focus_head(s, w) ==
    LET c == get_client_from_window(s, w) IN
    IF c # NULL
      THEN Free(client_delete(client_manage_focus(s, s.f_list[s.client[c].ws]), c), c)
      ELSE s

handle_unmap_notify(s, w) ==
    LET c == get_client_from_window(s, w) IN
    IF c # NULL THEN Free(client_delete(focus_next(s, c), c), c) ELSE s

\* monitors_free(); setup_monitors() with n screens reported
setup_monitors(s, n) ==
    [s EXCEPT !.m_count = n, !.m_list = XineramaQueryScreens(n)]

handle_configure_notify(s, isRoot, n) ==
    IF isRoot THEN s ELSE setup_monitors(s, n)

handle_configure_request(s, w) ==
    LET c == get_client_from_window(s, w) IN
    IF c # NULL THEN client_refresh(s, c) ELSE s

(* ------------------------- command inputs ---------------------------- *)
\* the 1-based workspace numbers a command may carry: the valid ones, 0
\* and one past the end
WsNumbers == 0..(WORKSPACE_NUMBER + 1)
\* the 0-based workspace indices a save-monitor command may carry
WsIndices == 0..WORKSPACE_NUMBER
\* window attributes reported at map time
MapAttrs == {[x |-> 0, y |-> 0, width |-> 2, height |-> 2]}
\* (x, y) of move commands and (w, h) of resize commands
MoveArgs == {<<1, 0>>, <<0, 2>>}
ResizeArgs == {<<1, 0>>, <<-4, 0>>}
\* the attributes a window may report when it asks to be mapped
MapSizes ==
    {[x |-> 0, y |-> 0, width |-> w, height |-> h] :
        w \in {MINIMUM_DIM, MaxDim}, h \in {MINIMUM_DIM, MaxDim}}

\* the top gaps a command may set: none, and one taller than the monitor
TopGaps == {0, MonH + 1}

\* d[1], d[2] of the geometry commands
MoveAbsArgs == {<<-1, 0>>, <<3, 3>>, <<5, 1>>}
MoveRelArgs == {<<-2, 0>>, <<1, 0>>, <<0, -2>>, <<0, 1>>}
ResizeAbsArgs == {<<0, 0>>, <<3, 2>>, <<5, 5>>}
Deltas == (-MaxDelta)..MaxDelta
Gaps == 0..MaxGap
Origins == {-1, 0, MaxCoord - 1}
Dims == {-1, 0, MINIMUM_DIM, MINIMUM_DIM + 1, MaxDim}
Directions == {EAST, SOUTH, WEST, NORTH}

\* last records the events the properties below speak of, with their
\* arguments; any other event is recorded as Other
Event(op, a, b) == [op |-> op, a |-> a, b |-> b]
Other == Event("other", 0, 0)

\* an event is dispatched only while the process runs
Running == fault = "none"

Handle(s, ev) == Running /\ Becomes(s) /\ last' = ev

(* ------------------------- IPC handlers ------------------------------ *)
\* ipc_move_absolute that refreshes the client after the move
ipc_move_absolute_refreshed(s, x, y) ==
    IF s.f_client = NULL THEN s
    ELSE client_refresh(client_move_absolute(s, s.f_client, x, y), s.f_client)

ipc_move_absolute(s, x, y) ==
    IF s.f_client = NULL THEN s ELSE client_move_absolute(s, s.f_client, x, y)

ipc_move_relative(s, x, y) ==
    IF s.f_client = NULL THEN s ELSE client_move_relative(s, s.f_client, x, y)

ipc_monocle(s) ==
    IF s.f_client = NULL THEN s ELSE client_monocle(s, s.f_client)

ipc_raise(s) ==
    IF s.f_client = NULL THEN s ELSE client_raise(s, s.f_client)

ipc_resize_absolute(s, w, h) ==
    IF s.f_client = NULL THEN s ELSE client_resize_absolute(s, s.f_client, w, h)

ipc_resize_relative(s, w, h) ==
    IF s.f_client = NULL THEN s ELSE client_resize_relative(s, s.f_client, w, h)

ipc_toggle_decorations(s) ==
    IF s.f_client = NULL THEN s ELSE client_toggle_decorations(s, s.f_client)

ipc_window_close(s) ==
    IF s.f_client = NULL THEN s ELSE client_close(s, s.f_client)

ipc_window_center(s) == client_center(s, s.f_client)

\* the four colour handlers store a colour, which only the display sees
ipc_color(s) == refresh_config(s)

ipc_b_width(s, w) ==
    client_raise(refresh_config([s EXCEPT !.conf.b_width = w]), s.f_client)

ipc_i_width(s, w) == refresh_config([s EXCEPT !.conf.i_width = w])

ipc_t_height(s, th) == refresh_config([s EXCEPT !.conf.t_height = th])

ipc_top_gap(s, data) == refresh_config([s EXCEPT !.conf.top_gap = data])

ipc_switch_ws(s, n) == switch_ws(s, n - 1)

ipc_send_to_ws(s, n) ==
    IF s.f_client = NULL THEN s ELSE client_send_to_ws(s, s.f_client, n - 1)

ipc_fullscreen(s) ==
    IF s.f_client = NULL THEN s ELSE client_fullscreen(s, s.f_client)

ipc_snap_left(s) ==
    IF s.f_client = NULL THEN s ELSE client_snap_left(s, s.f_client)

ipc_snap_right(s) ==
    IF s.f_client = NULL THEN s ELSE client_snap_right(s, s.f_client)

ipc_cardinal_focus(s, dir) == client_cardinal_focus(s, s.f_client, dir)

ipc_cycle_focus(s) == focus_next(s, s.f_client)

\* ipc_save_monitor with the test of mon left out
ipc_save_monitor_unchecked(s, ws, mon) ==
    IF ~Ok(Touch(s, ws)) THEN Touch(s, ws)
    ELSE [Touch(s, ws) EXCEPT !.ws_m_list[ws] = mon]

ipc_save_monitor(s, ws, mon) ==
    IF mon >= s.m_count THEN s
    ELSE IF ~Ok(Touch(s, ws)) THEN Touch(s, ws)
    ELSE [Touch(s, ws) EXCEPT !.ws_m_list[ws] = mon]

\* the pointer is display state: child is the window under it and (dx, dy)
\* its movement since the last pointer command
ipc_pointer_move(s, mode, child, dx, dy) ==
    IF mode = 2 THEN s
    ELSE LET c == get_client_from_window(s, child) IN
         IF c = NULL THEN s
         ELSE LET s1 == client_manage_focus(s, c) IN
              IF mode = 1 THEN client_move_relative(s1, c, dx, dy) ELSE s1

\* a window can be under the pointer only where the display is
OnScreen(c) ==
    /\ client[c].alive
    /\ client[c].x < display_width
    /\ client[c].x + client[c].width > 0

(* --------------------------- X events -------------------------------- *)
\* the X server names a new window by the lowest id not in use; managed:
\* the window is not override-redirect and its type is not filtered
HandleMapRequest ==
    \E w \in Clients, wa \in MapAttrs, managed \in BOOLEAN :
        /\ ~client[w].alive
        /\ \A v \in Clients : v < w => client[v].alive
        /\ Handle(manage_new_window(State, w, wa, managed), Other)

HandleUnmapNotify ==
    \E w \in Clients :
        Handle(handle_unmap_notify(State, w),
               Event("unmap_notify", w,
                     IF get_client_from_window(State, w) # NULL THEN 1 ELSE 0))

\* the monitors do not change while the engine runs under Spec and SpecDual
HandleConfigureNotify ==
    \E isRoot \in BOOLEAN :
        Handle(handle_configure_notify(State, isRoot, m_count), Other)

\* a configure-notify while Xinerama reports n monitors, for the root
\* window or for another one
HandleConfigureNotifyScreens ==
    \E isRoot \in BOOLEAN, n \in 1..MaxMonitors :
        Handle(handle_configure_notify(State, isRoot, n),
               Event("configure_notify", IF isRoot THEN 1 ELSE 0, n))

HandleConfigureRequest ==
    \E w \in Clients :
        Handle(handle_configure_request(State, w), Other)

(* ------------------------- IPC commands ------------------------------ *)
IpcRaise == Handle(ipc_raise(State), Other)

IpcWindowClose == Handle(ipc_window_close(State), Other)

IpcColor == Handle(ipc_color(State), Other)

IpcBWidth == Handle(ipc_b_width(State, BORDER_WIDTH), Other)

IpcIWidth == Handle(ipc_i_width(State, INTERNAL_BORDER_WIDTH), Other)

IpcTHeight == Handle(ipc_t_height(State, TITLE_HEIGHT), Other)

IpcTopGap == Handle(ipc_top_gap(State, TOP_GAP), Other)

\* a map-request while fewer than k windows exist
MapRequestUpTo(k) ==
    \E w \in 1..k, wa \in MapAttrs, managed \in BOOLEAN :
        /\ ~client[w].alive
        /\ \A v \in Clients : v < w => client[v].alive
        /\ Handle(manage_new_window(State, w, wa, managed), Other)

\* the part of the plane the geometry commands are explored in
InBox ==
    \A c \in Clients :
        /\ client'[c].x \in -2..MaxCoord /\ client'[c].y \in -2..MaxCoord
        /\ client'[c].width <= MaxDim /\ client'[c].height <= MaxDim

\* a map-request of a window of any of MapSizes while fewer than k exist
MapRequestSized(k) ==
    \E w \in 1..k, wa \in MapSizes, managed \in BOOLEAN :
        /\ ~client[w].alive
        /\ \A v \in Clients : v < w => client[v].alive
        /\ Handle(manage_new_window(State, w, wa, managed), Other)

IpcMonocle == Handle(ipc_monocle(State), Other)

IpcFullscreen == Handle(ipc_fullscreen(State), Other)

IpcSnapLeft == Handle(ipc_snap_left(State), Other)

IpcSnapRight == Handle(ipc_snap_right(State), Other)

IpcTopGapAny == \E data \in TopGaps : Handle(ipc_top_gap(State, data), Other)

\* the configuration commands; last keeps which command it was.  The border
\* width, which client_hide adds to the place it moves a window to, is the
\* one setup() loaded or one more; the other values are those of setup()
IpcSetColor == Handle(ipc_color(State), Event("config", 0, 0))

IpcSetBWidth ==
    \E w \in {BORDER_WIDTH, BORDER_WIDTH + 1} :
        Handle(ipc_b_width(State, w), Event("config", 1, 0))

IpcSetIWidth ==
    Handle(ipc_i_width(State, INTERNAL_BORDER_WIDTH), Event("config", 2, 0))

IpcSetTHeight == Handle(ipc_t_height(State, TITLE_HEIGHT), Event("config", 3, 0))

IpcSetTopGap == Handle(ipc_top_gap(State, TOP_GAP), Event("config", 4, 0))

IpcMoveAbsolute ==
    \E p \in MoveAbsArgs :
        Handle(ipc_move_absolute(State, p[1], p[2]),
               Event("move_absolute", p[1], p[2])) /\ InBox

IpcMoveRelative ==
    \E p \in MoveRelArgs :
        Handle(ipc_move_relative(State, p[1], p[2]),
               Event("move_relative", p[1], p[2])) /\ InBox

IpcResizeAbsolute ==
    \E p \in ResizeAbsArgs :
        Handle(ipc_resize_absolute(State, p[1], p[2]),
               Event("resize_absolute", p[1], p[2])) /\ InBox

IpcResizeRelative ==
    \E p \in ResizeArgs :
        Handle(ipc_resize_relative(State, p[1], p[2]),
               Event("resize_relative", p[1], p[2])) /\ InBox

IpcToggleDecorations == Handle(ipc_toggle_decorations(State), Other)

IpcSwitchWs ==
    \E n \in WsNumbers : \E ub \in UbFor(n - 1) :
        Handle(ipc_switch_ws([State EXCEPT !.ub = ub], n), Other)

\* the switch-workspace command with a number that names a workspace
IpcSwitchWsInRange ==
    \E n \in 1..WORKSPACE_NUMBER :
        Handle(ipc_switch_ws(State, n), Event("switch_ws", n - 1, 0))

IpcSendToWs ==
    \E n \in WsNumbers : \E ub \in UbFor(n - 1) :
        Handle(ipc_send_to_ws([State EXCEPT !.ub = ub], n), Other)

\* the send-to-workspace command with a number that names a workspace
IpcSendToWsInRange ==
    \E n \in 1..WORKSPACE_NUMBER :
        Handle(ipc_send_to_ws(State, n), Event("send_to_ws", n - 1, f_client))

IpcCardinalFocus ==
    \E dir \in Directions :
        Handle(ipc_cardinal_focus(State, dir), Other)

\* the cardinal-focus command, with the direction and the client it starts
\* from on record
IpcCardinalFocusFrom ==
    \E dir \in Directions :
        Handle(ipc_cardinal_focus(State, dir), Event("cardinal_focus", dir, f_client))

IpcCycleFocus == Handle(ipc_cycle_focus(State), Event("cycle_focus", f_client, 0))

IpcPointerMove ==
    \E mode \in 0..2, child \in Ptr :
        /\ child # NULL => OnScreen(child)
        /\ Handle(ipc_pointer_move(State, mode, child, 0, 0), Other)

\* the monitor index is a valid one or one too high
IpcSaveMonitor ==
    \E ws \in WsIndices, mon \in 0..m_count : \E ub \in UbFor(ws) :
        Handle(ipc_save_monitor([State EXCEPT !.ub = ub], ws, mon),
               Event("save_monitor", ws, mon))

(* ------------------------- specifications ---------------------------- *)
\* setup() with n monitors plugged in: the statics of wm.c:24-37, the
\* defaults of config.h and the monitors found by setup_monitors()
SetupConf(n, lock) ==
    /\ f_client = NULL
    /\ c_list = [ws \in Slots |-> NULL]
    /\ f_list = [ws \in Slots |-> NULL]
    /\ client = [c \in Clients |-> FreeClient]
    /\ m_count = n
    /\ m_list = XineramaQueryScreens(n)
    /\ ws_m_list = [ws \in Slots |-> 0]
    /\ curr_ws = 0
    /\ conf = [b_width |-> BORDER_WIDTH, i_width |-> INTERNAL_BORDER_WIDTH,
               t_height |-> TITLE_HEIGHT, top_gap |-> TOP_GAP, edge_lock |-> lock]
    /\ display_width = n * MonW
    /\ fault = "none"
    /\ last = Event("setup", 0, 0)

\* setup() as built from the config.h of the model
Setup(n) == SetupConf(n, EDGE_LOCK)

\* the engine on one monitor, where there is nothing to assign a workspace
\* to: every event, and every command that works on the lists, the focus,
\* the current workspace or the hidden flags
Init == Setup(1)

Next ==
    \/ HandleMapRequest
    \/ HandleUnmapNotify
    \/ HandleConfigureNotify
    \/ HandleConfigureRequest
    \/ IpcRaise
    \/ IpcWindowClose
    \/ IpcColor
    \/ IpcBWidth
    \/ IpcIWidth
    \/ IpcTHeight
    \/ IpcTopGap
    \/ IpcSwitchWs
    \/ IpcSendToWs
    \/ IpcCardinalFocus
    \/ IpcCycleFocus
    \/ IpcPointerMove

Spec == Init /\ [][Next]_vars

\* the engine on MaxMonitors monitors under the operations that decide
\* which workspace is visible on which monitor
InitDual == Setup(MaxMonitors)

NextDual ==
    \/ HandleMapRequest
    \/ IpcSwitchWs
    \/ IpcSaveMonitor

SpecDual == InitDual /\ [][NextDual]_vars

\* the geometry commands on the windows of one monitor, for either setting
\* of EDGE_LOCK in config.h
InitGeom == \E lock \in BOOLEAN : SetupConf(1, lock)

NextGeom ==
    \/ MapRequestUpTo(GeomClients)
    \/ IpcMoveAbsolute
    \/ IpcMoveRelative
    \/ IpcResizeAbsolute
    \/ IpcResizeRelative
    \/ IpcToggleDecorations

SpecGeom == InitGeom /\ [][NextGeom]_vars

\* windows placed anywhere on one monitor, the workspaces switched and the
\* focus moved among them, for either setting of EDGE_LOCK in config.h
NextPlace ==
    \/ MapRequestUpTo(PlaceClients)
    \/ IpcMoveAbsolute
    \/ IpcSwitchWsInRange
    \/ IpcCardinalFocusFrom
    \/ IpcCycleFocus

SpecPlace == InitGeom /\ [][NextPlace]_vars

\* windows with and without decorations moved about one monitor, for either
\* setting of EDGE_LOCK in config.h
NextMove ==
    \/ MapRequestUpTo(PlaceClients)
    \/ IpcMoveAbsolute
    \/ IpcToggleDecorations
    \/ IpcCycleFocus

SpecMove == InitGeom /\ [][NextMove]_vars

\* clients sent from workspace to workspace on one monitor
NextSend ==
    \/ HandleMapRequest
    \/ IpcSwitchWsInRange
    \/ IpcSendToWsInRange

SpecSend == Init /\ [][NextSend]_vars

\* the focus moved by direction among windows placed about one monitor
NextCardinal ==
    \/ HandleMapRequest
    \/ IpcMoveAbsolute
    \/ IpcCycleFocus
    \/ IpcCardinalFocusFrom

SpecCardinal == Init /\ [][NextCardinal]_vars

\* windows of several sizes laid out, resized and refreshed on one monitor,
\* for either setting of EDGE_LOCK in config.h
NextLayout ==
    \/ MapRequestSized(GeomClients)
    \/ HandleUnmapNotify
    \/ HandleConfigureRequest
    \/ IpcResizeAbsolute
    \/ IpcResizeRelative
    \/ IpcMonocle
    \/ IpcFullscreen
    \/ IpcSnapLeft
    \/ IpcSnapRight
    \/ IpcTopGapAny
    \/ IpcToggleDecorations

SpecLayout == InitGeom /\ [][NextLayout]_vars

\* the configuration commands on MaxMonitors monitors, among the operations
\* that decide which workspace is shown on which monitor
NextConfig ==
    \/ MapRequestUpTo(PlaceClients)
    \/ IpcSwitchWsInRange
    \/ IpcSaveMonitor
    \/ IpcSetColor
    \/ IpcSetBWidth
    \/ IpcSetIWidth
    \/ IpcSetTHeight
    \/ IpcSetTopGap

SpecConfig == InitDual /\ [][NextConfig]_vars

\* the engine while monitors are plugged in and out
InitHotplug == \E n \in 1..MaxMonitors : Setup(n)

NextHotplug ==
    \/ HandleMapRequest
    \/ HandleConfigureNotifyScreens
    \/ IpcSaveMonitor

SpecHotplug == InitHotplug /\ [][NextHotplug]_vars

\* save and delete driven directly, as a test of the registry drives them:
\* a client is saved when it is in no list, and deleted or moved to the
\* front when it is in one; client_delete leaves the struct allocated
InList(c) == \E ws \in WS : c \in Range(Stack(State, ws))

RegistrySave ==
    \E c \in Clients, ws \in WS :
        /\ ~InList(c)
        /\ Handle(client_save([State EXCEPT !.client[c].alive = TRUE,
                                            !.client[c].ws = ws], c, ws),
                  Other)

RegistryMoveToFront ==
    \E c \in Clients :
        /\ InList(c)
        /\ Handle(client_move_to_front(State, c),
                  Event("client_move_to_front", c,
                        IF c_list[client[c].ws] = c THEN 1 ELSE 0))

RegistryDelete ==
    \E c \in Clients :
        /\ InList(c)
        /\ Handle(client_delete(State, c),
                  Event("client_delete", c,
                        IF c_list[client[c].ws] = c THEN 1 ELSE 0))

NextRegistry ==
    \/ RegistrySave
    \/ RegistryMoveToFront
    \/ RegistryDelete

SpecRegistry == Init /\ [][NextRegistry]_vars

(* ----------------------------- properties ---------------------------- *)
Managed == {c \in Clients : client[c].alive}

\* a list that ends, without a client twice
IsChain(q) ==
    /\ Len(q) <= MaxClients
    /\ \A i, j \in 1..Len(q) : i # j => q[i] # q[j]

Count(q, c) == Cardinality({i \in 1..Len(q) : q[i] = c})

\* the lists of the state the step in hand leads to
StackNext(ws) == Walk(client', "next", c_list'[ws], MaxClients + 1)
FocusNext(ws) == Walk(client', "f_next", f_list'[ws], MaxClients + 1)

\* C1: in every reachable state the stacking list and the focus list of a
\* workspace hold the same clients; only the order may differ.
C1_SameMembership ==
    \A ws \in WS : Range(Stack(State, ws)) = Range(Focus(State, ws))

\* a workspace whose two lists hold the same clients in different orders
C1_Witness ==
    \E ws \in WS :
        /\ Len(Stack(State, ws)) >= 2
        /\ Stack(State, ws) # Focus(State, ws)

\* C2: in every reachable state a non-null f_client is a member of the
\* stacking list of the current workspace.
C2_FocusOnCurrentWs ==
    f_client # NULL => f_client \in Range(Stack(State, curr_ws))

\* C3: once an unmap-notify for a managed client c has been handled, the
\* process runs on, c is deallocated and reachable from no stacking list
\* and no focus list, and f_client does not refer to c.
C3_UnmapForgets ==
    (last.op = "unmap_notify" /\ last.b = 1) =>
        /\ fault = "none"
        /\ ~client[last.a].alive
        /\ f_client # last.a
        /\ \A ws \in WS :
            /\ last.a \notin Range(Stack(State, ws))
            /\ last.a \notin Range(Focus(State, ws))

\* the unmap of a managed client that left the focus on another client
C3_Witness ==
    /\ last.op = "unmap_notify"
    /\ last.b = 1
    /\ fault = "none"
    /\ f_client # NULL

\* C4: in every reachable state each managed client is exactly once in
\* exactly one stacking list and exactly once in exactly one focus list,
\* those of the workspace in its ws field, which is a valid index; and
\* every list ends and holds no client twice.
C4_OneListEach ==
    /\ \A ws \in WS : IsChain(Stack(State, ws)) /\ IsChain(Focus(State, ws))
    /\ \A c \in Managed :
        /\ client[c].ws \in WS
        /\ \A ws \in WS :
            /\ Count(Stack(State, ws), c) = (IF ws = client[c].ws THEN 1 ELSE 0)
            /\ Count(Focus(State, ws), c) = (IF ws = client[c].ws THEN 1 ELSE 0)

\* C5: a client_delete of a saved client c leaves c unreachable from the
\* stacking list and the focus list of its workspace, and changes the
\* head of the stacking list only if c was that head.
C5_SaveThenDelete ==
    [][last'.op = "client_delete" =>
        LET c == last'.a
            ws == client[c].ws
        IN  /\ fault' = "none"
            /\ c \notin Range(StackNext(ws))
            /\ c \notin Range(FocusNext(ws))
            /\ c_list'[ws] # c_list[ws] => c_list[ws] = c]_vars

\* a client that was not the head of its stacking list has been deleted
\* and the list still holds a client
C5_Witness ==
    /\ last.op = "client_delete"
    /\ last.b = 0
    /\ fault = "none"
    /\ c_list[client[last.a].ws] # NULL

\* workspace ws holds a client that is not hidden
Visible(ws) == \E c \in Range(Stack(State, ws)) : ~client[c].hidden

\* two workspaces mapped to one monitor
SharesMonitor(x, y) == x # y /\ ws_m_list[x] = ws_m_list[y]

\* C6: safe_to_focus(Y) is false whenever a workspace X # Y on Y's monitor
\* holds a client that is not hidden, wherever in X's stacking list, and
\* true when every such workspace is empty or all hidden.
C6_SafeToFocusSeesAll ==
    fault = "none" =>
        \A y \in WS :
            safe_to_focus(State, y) = ~ \E x \in WS : SharesMonitor(x, y) /\ Visible(x)

\* C7: in every reachable state at most one of the workspaces mapped to a
\* monitor holds a client that is not hidden.
C7_OneVisiblePerMonitor ==
    \A x, y \in WS : SharesMonitor(x, y) => ~(Visible(x) /\ Visible(y))

\* C8: while f_client is null every handler that targets the focused
\* client completes without a fault and leaves the engine state as it is.
C8_NullFocusNoOp ==
    (fault = "none" /\ f_client = NULL) =>
        /\ \A a \in MoveArgs :
            /\ ipc_move_absolute(State, a[1], a[2]) = State
            /\ ipc_move_relative(State, a[1], a[2]) = State
        /\ \A a \in ResizeArgs :
            /\ ipc_resize_absolute(State, a[1], a[2]) = State
            /\ ipc_resize_relative(State, a[1], a[2]) = State
        /\ ipc_monocle(State) = State
        /\ ipc_raise(State) = State
        /\ ipc_toggle_decorations(State) = State
        /\ ipc_window_close(State) = State
        /\ ipc_window_center(State) = State
        /\ \A n \in WsNumbers : ipc_send_to_ws(State, n) = State
        /\ ipc_fullscreen(State) = State
        /\ ipc_snap_left(State) = State
        /\ ipc_snap_right(State) = State
        /\ \A dir \in Directions : ipc_cardinal_focus(State, dir) = State
        /\ ipc_cycle_focus(State) = State

\* C9: a switch-workspace or send-to-workspace command whose number is
\* outside 1..WORKSPACE_NUMBER completes without a fault and leaves the
\* engine state as it is.
C9_OutOfRangeNoOp ==
    fault = "none" =>
        \A n \in WsNumbers \ (1..WORKSPACE_NUMBER) :
            /\ ipc_switch_ws(State, n) = State
            /\ ipc_send_to_ws(State, n) = State

\* C10: a save-monitor command with a monitor index >= m_count changes
\* nothing; with a valid workspace and 0 <= index < m_count it sets that
\* workspace's entry of ws_m_list to the index and changes nothing else.
C10_SaveMonitor ==
    [][last'.op = "save_monitor" =>
        LET ws == last'.a
            mon == last'.b
        IN  /\ mon >= m_count =>
                UNCHANGED <<f_client, c_list, f_list, client, m_list, m_count,
                            ws_m_list, curr_ws, conf, display_width, fault>>
            /\ (ws \in WS /\ mon \in 0..(m_count - 1)) =>
                /\ ws_m_list' = [ws_m_list EXCEPT ![ws] = mon]
                /\ UNCHANGED <<f_client, c_list, f_list, client, m_list, m_count,
                               curr_ws, conf, display_width, fault>>]_vars

\* a workspace that holds a client has just been assigned the second
\* monitor
C10_Witness ==
    /\ last.op = "save_monitor"
    /\ last.a \in WS
    /\ last.b = 1
    /\ last.b < m_count
    /\ ws_m_list[last.a] = 1
    /\ c_list[last.a] # NULL

\* C11: once a configure-notify for the root window has been handled,
\* m_count and m_list are the monitors Xinerama reports at that moment.
C11_RootNotifyReenumerates ==
    [][(last'.op = "configure_notify" /\ last'.a = 1) =>
        /\ fault' = "none"
        /\ m_count' = last'.b
        /\ m_list' = XineramaQueryScreens(last'.b)]_vars

\* the monitor a client lives on
MonOf(c) == m_list[ws_m_list[client[c].ws]]

\* the stored geometry of c after client_move_relative(c, dx, dy)
Moved(c, dx, dy) == client_move_relative(State, c, dx, dy).client[c]

\* C12: with edge-lock on, on a monitor of width W at origin 0, a client of
\* width w <= W at any stored x has 0 <= x <= W - w after
\* client_move_relative(c, dx, 0), for every dx.
C12_HorizontalClamp ==
    \A c \in Managed, dx \in Deltas :
        (/\ conf.edge_lock
         /\ MonOf(c).x = 0
         /\ client[c].width <= MonOf(c).width)
        => /\ Moved(c, dx, 0).x >= 0
           /\ Moved(c, dx, 0).x <= MonOf(c).width - client[c].width

\* a horizontal relative move has just left a client of width 3 against the
\* right edge of its monitor
C12_Witness ==
    /\ conf.edge_lock
    /\ last.op = "move_relative" /\ last.b = 0
    /\ f_client # NULL
    /\ client[f_client].width = 3
    /\ client[f_client].x = MonW - 3
    /\ client[f_client].decorated

\* C13: with edge-lock on, a client whose height fits between the top-gap
\* line and the bottom of its monitor has, after client_move_relative(c, dx,
\* dy), y >= monitor.y + top_gap and y + height <= monitor.y + monitor.height.
C13_VerticalClamp ==
    \A c \in Managed, dx \in Deltas, dy \in Deltas :
        (/\ conf.edge_lock
         /\ client[c].height <= MonOf(c).height - conf.top_gap)
        => /\ Moved(c, dx, dy).y >= MonOf(c).y + conf.top_gap
           /\ Moved(c, dx, dy).y + client[c].height
                <= MonOf(c).y + MonOf(c).height

\* workspace a is current, every client of it is shown, workspace b is
\* another workspace of the same monitor and holds no client
SwitchCase(a, b) ==
    /\ a # b /\ curr_ws = a /\ ws_m_list[a] = ws_m_list[b]
    /\ c_list[a] # NULL /\ c_list[b] = NULL
    /\ \A c \in Range(Stack(State, a)) : ~client[c].hidden

\* c lies between the left and the right edge of its monitor
WithinMonitorX(c) ==
    /\ client[c].x >= MonOf(c).x
    /\ client[c].x + client[c].width <= MonOf(c).x + MonOf(c).width

\* edge-lock is off, or c lies within the left and right edge of its monitor
KeepsX(c) == ~conf.edge_lock \/ WithinMonitorX(c)

\* switch_ws(b) from SwitchCase(a, b) hides every client of a and shows
\* none; switch_ws(a) after it shows every client of a again, and at the x it
\* had: for every client if anyX, else for the clients with KeepsX
SwitchRoundTrip(a, b, anyX) ==
    LET s1 == switch_ws(State, b)
        s2 == switch_ws(s1, a)
    IN  /\ s1.fault = "none" /\ s2.fault = "none"
        /\ \A c \in Range(Stack(State, a)) : s1.client[c].hidden
        /\ \A c \in Managed : ~s1.client[c].hidden => ~client[c].hidden
        /\ \A c \in Range(Stack(State, a)) :
              /\ ~s2.client[c].hidden
              /\ (anyX \/ KeepsX(c)) => s2.client[c].x = client[c].x

\* C14: from a current workspace A with shown clients and an empty
\* workspace B of the same monitor, switch_ws(B) hides every client of A and
\* shows none, and the following switch_ws(A) leaves every client of A shown,
\* with its stored x as before the first switch if edge-lock is off or the
\* client lay within the left and right edge of its monitor.
C14_SwitchRoundTrip ==
    \A a \in WS, b \in WS : SwitchCase(a, b) => SwitchRoundTrip(a, b, FALSE)

\* C14 as stated: ... with its stored x as before the first switch, for
\* every starting x and for edge-lock on or off.
C14_SwitchRoundTripAnyX ==
    \A a \in WS, b \in WS : SwitchCase(a, b) => SwitchRoundTrip(a, b, TRUE)

\* the engine has switched away from a workspace and back: its two clients
\* are shown again where client_hide found them, the other workspace is empty
C14_Witness ==
    /\ last = Event("switch_ws", curr_ws, 0)
    /\ \E b \in WS : SwitchCase(curr_ws, b)
    /\ Len(Stack(State, curr_ws)) = 2
    /\ \A c \in Range(Stack(State, curr_ws)) :
          client[c].x_hide = client[c].x /\ WithinMonitorX(c)
    /\ \E c \in Range(Stack(State, curr_ws)) : client[c].x = 0

\* C15: for every client c of a stacking list, client_move_to_front(c)
\* twice leaves the stacking order that one call leaves, and c is the head of
\* its list after one call and after two.
C15_MoveToFrontIdempotent ==
    \A c \in Clients :
        InList(c) =>
            LET s1 == client_move_to_front(State, c)
                s2 == client_move_to_front(s1, c)
            IN  /\ s1.fault = "none" /\ s2.fault = "none"
                /\ \A ws \in WS : Stack(s2, ws) = Stack(s1, ws)
                /\ s1.c_list[client[c].ws] = c
                /\ s2.c_list[client[c].ws] = c

\* client_move_to_front has just brought a client from behind to the front
\* of a list of three
C15_Witness ==
    /\ last.op = "client_move_to_front" /\ last.b = 0
    /\ \E ws \in WS : Len(Stack(State, ws)) = 3 /\ c_list[ws] = last.a

\* a comes before b in the list q
Before(q, a, b) == \E i \in 1..Len(q), j \in 1..Len(q) : i < j /\ q[i] = a /\ q[j] = b

\* C16: client_move_to_front(c) leaves the focus list of every workspace as
\* it was, in membership and order, leaves the stacking list of every other
\* workspace as it was, and keeps the clients other than c in their order.
C16_MoveToFrontFrame ==
    [][last'.op = "client_move_to_front" =>
        LET c == last'.a
            ws == client[c].ws
        IN  /\ fault' = "none"
            /\ f_list' = f_list
            /\ \A v \in WS : FocusNext(v) = Focus(State, v)
            /\ \A v \in WS \ {ws} : StackNext(v) = Stack(State, v)
            /\ Range(StackNext(ws)) = Range(Stack(State, ws))
            /\ Len(StackNext(ws)) = Len(Stack(State, ws))
            /\ \A a \in Clients \ {c}, b \in Clients \ {c} :
                  Before(StackNext(ws), a, b) <=> Before(Stack(State, ws), a, b)]_vars

\* client_move_to_front has just moved the second of two clients to the
\* front while the focus list keeps another order and the other workspace
\* holds a client
C16_Witness ==
    /\ last.op = "client_move_to_front" /\ last.b = 0
    /\ \E ws \in WS :
          /\ Len(Stack(State, ws)) = 2
          /\ c_list[ws] = last.a
          /\ Focus(State, ws) # Stack(State, ws)
          /\ \E v \in WS \ {ws} : c_list[v] # NULL

\* the engine after n cycle-focus commands in a row
RECURSIVE Cycled(_, _)
Cycled(s, n) == IF n = 0 THEN s ELSE Cycled(ipc_cycle_focus(s), n - 1)

\* the entry after c in the list q, the first entry after the last one
Successor(q, c) ==
    LET i == CHOOSE j \in 1..Len(q) : q[j] = c
    IN  IF i = Len(q) THEN q[1] ELSE q[i + 1]

\* C17: a cycle-focus command focuses the successor of the focused client in
\* the focus list of its workspace, the head after the tail; k commands in a
\* row on a workspace of k >= 1 clients focus every client of it exactly once
\* and end at the client they started from.
C17_CycleFocus ==
    (fault = "none" /\ f_client # NULL) =>
        LET q == Focus(State, client[f_client].ws)
            k == Len(q)
        IN  /\ f_client \in Range(q)
            /\ ipc_cycle_focus(State).f_client = Successor(q, f_client)
            /\ \A i \in 1..k : Cycled(State, i).fault = "none"
            /\ {Cycled(State, i).f_client : i \in 1..k} = Range(q)
            /\ Cardinality(Range(q)) = k
            /\ Cycled(State, k).f_client = f_client
            /\ \A i \in 1..k : \A ws \in WS :
                  Focus(Cycled(State, i), ws) = Focus(State, ws)

\* a cycle-focus command has just wrapped from the tail of a focus list of
\* three to its head
C17_Witness ==
    /\ last.op = "cycle_focus" /\ last.a # NULL /\ f_client # NULL
    /\ Len(Focus(State, client[f_client].ws)) = 3
    /\ client[last.a].alive /\ client[last.a].f_next = NULL
    /\ f_client = f_list[client[f_client].ws]
    /\ client[last.a].ws = client[f_client].ws

\* a client of the current workspace lies strictly on side dir of c
OnSide(c, dir) ==
    \E tmp \in Range(Stack(State, curr_ws)) :
        CASE dir = EAST  -> client[tmp].x > client[c].x
          [] dir = SOUTH -> client[tmp].y > client[c].y
          [] dir = WEST  -> client[tmp].x < client[c].x
          [] dir = NORTH -> client[tmp].y < client[c].y

\* C18: client_cardinal_focus(c, dir) with no client of the current
\* workspace strictly on side dir of c leaves the focused client, the
\* stacking lists and the focus lists as they were.
C18_NoCandidateNoChange ==
    [][(last'.op = "cardinal_focus" /\ f_client # NULL
            /\ ~OnSide(f_client, last'.a)) =>
        /\ fault' = "none"
        /\ f_client' = f_client
        /\ c_list' = c_list /\ f_list' = f_list
        /\ \A ws \in WS : StackNext(ws) = Stack(State, ws)
        /\ \A ws \in WS : FocusNext(ws) = Focus(State, ws)]_vars

\* a cardinal-focus command to the EAST has just been handled while the only
\* other client of the workspace lies to the WEST of the focused one, at
\* another height
C18_Witness ==
    /\ last.op = "cardinal_focus" /\ last.a = EAST
    /\ f_client # NULL /\ last.b = f_client
    /\ Len(Stack(State, curr_ws)) = 2
    /\ f_client \in Range(Stack(State, curr_ws))
    /\ ~OnSide(f_client, EAST) /\ OnSide(f_client, WEST)
    /\ OnSide(f_client, SOUTH)

\* the stored rectangle of client c in the record cl
Geom(cl, c) == <<cl[c].x, cl[c].y, cl[c].width, cl[c].height>>

\* C19: the move-absolute command with d[1] = x and d[2] = y, received
\* while a client is focused, stores exactly (x, y) as the origin of that
\* client, whatever edge-lock and its decoration are, and changes the stored
\* geometry of no other client.
C19_MoveAbsoluteExact ==
    [][(last'.op = "move_absolute" /\ f_client # NULL) =>
        /\ fault' = "none"
        /\ client'[f_client].x = last'.a
        /\ client'[f_client].y = last'.b
        /\ \A c \in Clients \ {f_client} : Geom(client', c) = Geom(client, c)]_vars

\* a move-absolute command has just put an undecorated client beyond the
\* right edge of the monitor with edge-lock on, next to a second client
C19_Witness ==
    /\ last = Event("move_absolute", 5, 1)
    /\ conf.edge_lock
    /\ f_client # NULL
    /\ ~client[f_client].decorated
    /\ Geom(client, f_client) = <<5, 1, 2, 2>>
    /\ \E c \in Managed \ {f_client} : client[c].decorated /\ ~client[c].hidden

\* C20: for a decorated client, client_move_absolute(c, x, y) followed by
\* client_resize_absolute(c, w, h) leaves the stored geometry
\* (x, y, max(w, MINIMUM_DIM), max(h, MINIMUM_DIM)).
C20_MoveThenResize ==
    \A c \in Managed :
        client[c].decorated =>
            \A x \in Origins, y \in Origins, w \in Dims, h \in Dims :
                LET s1 == client_move_absolute(State, c, x, y)
                    s2 == client_resize_absolute(s1, c, w, h)
                IN  /\ s2.fault = "none"
                    /\ Geom(s2.client, c) =
                         <<x, y, MAX(w, MINIMUM_DIM), MAX(h, MINIMUM_DIM)>>

\* a decorated client that move-absolute put at (5, 1) has just been
\* resized to (0, 0) and holds the least dimensions there
C20_Witness ==
    /\ last = Event("resize_absolute", 0, 0)
    /\ f_client # NULL
    /\ client[f_client].decorated
    /\ Geom(client, f_client) = <<5, 1, MINIMUM_DIM, MINIMUM_DIM>>

\* C21: after switch_ws(ws) with a valid ws the current workspace is ws,
\* every client of every other workspace of the same monitor is hidden, every
\* client of ws is shown, the clients of the workspaces of another monitor
\* keep their hidden flag, and the head of the stacking list of ws, if there
\* is one, is the focused client.
C21_SwitchWs ==
    fault = "none" =>
        \A ws \in WS :
            LET s1 == switch_ws(State, ws)
            IN  /\ s1.fault = "none"
                /\ s1.curr_ws = ws
                /\ \A v \in WS \ {ws} : \A c \in Range(Stack(State, v)) :
                      IF ws_m_list[v] = ws_m_list[ws]
                        THEN s1.client[c].hidden
                        ELSE s1.client[c].hidden = client[c].hidden
                /\ \A c \in Range(Stack(State, ws)) : ~s1.client[c].hidden
                /\ c_list[ws] # NULL => s1.f_client = s1.c_list[ws]

\* the engine has switched to workspace 1: the clients of workspace 0, on
\* the same monitor, are hidden, those of workspace 1 are shown and its head
\* is focused
C21_Witness ==
    /\ fault = "none" /\ curr_ws = 1
    /\ ws_m_list[0] = ws_m_list[1]
    /\ c_list[0] # NULL /\ c_list[1] # NULL
    /\ \A c \in Range(Stack(State, 0)) : client[c].hidden
    /\ \A c \in Range(Stack(State, 1)) : ~client[c].hidden
    /\ f_client = c_list[1]

\* the clients of workspace ws after the step, as a set
StackSetNext(ws) == Range(StackNext(ws))
FocusSetNext(ws) == Range(FocusNext(ws))

C23_ManageFocus ==
    fault = "none" =>
        /\ client_manage_focus(State, NULL) = State
        /\ \A c \in Clients :
              InList(c) =>
                LET s1 == client_manage_focus(State, c)
                IN  /\ s1.fault = "none"
                    /\ s1.f_client = c
                    /\ s1.c_list[client[c].ws] = c
                    /\ s1.f_list = f_list
                    /\ \A ws \in WS : Focus(s1, ws) = Focus(State, ws)

\* the focus has just moved along the focus list: the focused client is
\* the head of a stacking list of three, which the focus list does not
\* begin with
C23_Witness ==
    /\ last.op = "cycle_focus" /\ f_client # NULL /\ last.a # f_client
    /\ c_list[client[f_client].ws] = f_client
    /\ f_list[client[f_client].ws] # f_client
    /\ Len(Stack(State, client[f_client].ws)) = 3

\* C24: when the unmap-notify of a managed client c has been handled, the
\* focused client is the former successor of c in the focus list of its
\* workspace, the head if c was the tail, when that workspace still holds
\* clients, and no client is focused when c was the only one; all other
\* clients are in the lists they were in.
C24_UnmapAdvancesFocus ==
    [][(last'.op = "unmap_notify" /\ last'.b = 1) =>
        LET c == last'.a
            q == Focus(State, client[c].ws)
        IN  /\ fault' = "none"
            /\ c \in Range(q)
            /\ IF Len(q) > 1 THEN f_client' = Successor(q, c)
                             ELSE f_client' = NULL
            /\ \A ws \in WS :
                  /\ StackSetNext(ws) = Range(Stack(State, ws)) \ {c}
                  /\ FocusSetNext(ws) = Range(Focus(State, ws)) \ {c}]_vars

\* an unmap-notify has left the focus on the head of the focus list of a
\* workspace that is not the current one and still holds two clients
C24_Witness ==
    /\ last.op = "unmap_notify" /\ last.b = 1
    /\ f_client # NULL
    /\ Len(Focus(State, client[f_client].ws)) = 2
    /\ client[f_client].ws # curr_ws
    /\ f_list[client[f_client].ws] = f_client

\* the places in the stacking list q of the clients strictly on side dir of c
Candidates(q, c, dir) ==
    {i \in 1..Len(q) :
        CASE dir = EAST  -> client[q[i]].x > client[c].x
          [] dir = SOUTH -> client[q[i]].y > client[c].y
          [] dir = WEST  -> client[q[i]].x < client[c].x
          [] dir = NORTH -> client[q[i]].y < client[c].y}

\* the first place among the candidates at the least distance from c
Nearest(q, c, dir) ==
    LET cand == Candidates(q, c, dir)
        d(i) == euclidean_distance(client[c], client[q[i]])
    IN  CHOOSE i \in cand :
            /\ \A j \in cand : d(i) <= d(j)
            /\ \A j \in cand : d(j) = d(i) => i <= j

Configured(tg, th) == [State EXCEPT !.conf.top_gap = tg, !.conf.t_height = th]

\* C26: for every managed client, top gap, title height and edge-lock
\* setting, the stored (x, y, width, height) after client_refresh(c) twice is
\* that after client_refresh(c) once; with edge-lock off one client_refresh
\* leaves the stored geometry as it was.
C26_RefreshIdempotent ==
    \A c \in Managed, tg \in Gaps, th \in Gaps :
        LET s1 == client_refresh(Configured(tg, th), c)
            s2 == client_refresh(s1, c)
        IN  /\ s1.fault = "none" /\ s2.fault = "none"
            /\ Geom(s2.client, c) = Geom(s1.client, c)
            /\ ~conf.edge_lock => Geom(s1.client, c) = Geom(client, c)

\* a client that had lost its decorations and outgrown the monitor has been
\* refreshed under edge-lock and fills the monitor
C26_Witness ==
    /\ conf.edge_lock /\ last = Other
    /\ f_client # NULL
    /\ ~client[f_client].decorated
    /\ Geom(client, f_client) = <<0, 0, MonW, MonH>>

\* the origin of c lies inside its monitor, at least MINIMUM_DIM from the
\* right and from the bottom edge
OriginInside(c) ==
    /\ client[c].x >= MonOf(c).x
    /\ client[c].x <= MonOf(c).x + MonOf(c).width - MINIMUM_DIM
    /\ client[c].y >= MonOf(c).y
    /\ client[c].y <= MonOf(c).y + MonOf(c).height - MINIMUM_DIM

C29_MonitorIndexValid ==
    fault = "none" =>
        \A ws \in WS : ws_m_list[ws] >= 0 /\ ws_m_list[ws] < m_count

\* C30: in every reachable state every client whose hidden flag is set has
\* a stored x at or beyond the display width; no configure-request, move or
\* resize command or layout command brings it back while the flag is set.
C30_HiddenOffScreen ==
    \A c \in Managed : client[c].hidden => client[c].x >= display_width

\* C31: a configuration command (border colour, border width, inner width,
\* title height, top gap) leaves every client's hidden flag, workspace and
\* place in the stacking and focus lists as they were, and the focused
\* client too: a client that was shown before the command, on the current
\* workspace or on a workspace shown on another monitor, is shown after it,
\* and a client that was hidden is still hidden.
C31_ConfigFrame ==
    [][last'.op = "config" =>
          /\ fault' = "none"
          /\ f_client' = f_client
          /\ c_list' = c_list
          /\ f_list' = f_list
          /\ \A c \in Clients :
                /\ client'[c].alive = client[c].alive
                /\ client'[c].hidden = client[c].hidden
                /\ client'[c].ws = client[c].ws
                /\ client'[c].next = client[c].next
                /\ client'[c].f_next = client[c].f_next]_vars
====
